---- MODULE Spec2Model ----
(***************************************************************************)
(* Model of scripts/build.py (the Ignition / Combustion builder) and of    *)
(* scripts/ignition_inspector.py (the inspector of a built config).        *)
(*                                                                         *)
(* A Python str is a sequence of one-character strings; a character that   *)
(* has no TLA+ string literal is written "U+" and its decimal code point   *)
(* ("U+233" is e-acute).  bytes are sequences of 0..255.                   *)
(***************************************************************************)
EXTENDS Integers, Sequences, FiniteSets, TLC

\* ------------------------------------------------------------------------
\* Bounds of the model
\* ------------------------------------------------------------------------
\* A text under test is the concatenation of at most MaxChunks chunks.
MaxChunks == 3
\* Number of File Entries in storage.files of a rendered document.
MaxFiles == 2
\* Number of paths given to the inspector's "files" command.
MaxArgs == 2
\* Number of variables of ENV_VARS the environment may lack.
MaxAbsent == 1

\* ------------------------------------------------------------------------
\* Characters, str and bytes
\* ------------------------------------------------------------------------
Printable ==
    << " ", "!", "\"", "#", "$", "%", "&", "'", "(", ")", "*", "+", ",", "-", ".", "/",
       "0", "1", "2", "3", "4", "5", "6", "7", "8", "9", ":", ";", "<", "=", ">", "?",
       "@", "A", "B", "C", "D", "E", "F", "G", "H", "I", "J", "K", "L", "M", "N", "O",
       "P", "Q", "R", "S", "T", "U", "V", "W", "X", "Y", "Z", "[", "\\", "]", "^", "_",
       "U+96", "a", "b", "c", "d", "e", "f", "g", "h", "i", "j", "k", "l", "m", "n", "o",
       "p", "q", "r", "s", "t", "u", "v", "w", "x", "y", "z", "{", "|", "}", "~" >>

IndexOf(seq, c) == CHOOSE i \in 1..Len(seq) : seq[i] = c

\* The code points of the characters the texts are written in: printable
\* ASCII from U+0020 on, the line feed and e-acute.
CodePoints ==
    [c \in { Printable[i] : i \in 1..Len(Printable) } \cup {"\n", "U+233"} |->
        IF c = "\n" THEN 10
        ELSE IF c = "U+233" THEN 233
        ELSE 31 + IndexOf(Printable, c)]

\* ord(c): the code point of a character.
Ord(c) == CodePoints[c]

\* chr(n): the character of a code point.
Chr(n) ==
    IF n >= 32 /\ n <= 126 THEN Printable[n - 31]
    ELSE IF n = 10 THEN "\n"
    ELSE "U+" \o ToString(n)

RECURSIVE Flatten(_)
Flatten(seqs) == IF seqs = <<>> THEN <<>> ELSE Head(seqs) \o Flatten(Tail(seqs))

\* Variant of Utf8Encode: one byte per character, as encoding="latin-1" does.
Utf8Encode_latin1(s) == [i \in 1..Len(s) |-> Ord(s[i])]

\* str.encode(encoding="utf-8"), for code points below U+0800.
Utf8Encode(s) ==
    Flatten([i \in 1..Len(s) |->
        LET cp == Ord(s[i])
        IN  IF cp < 128 THEN << cp >>
            ELSE << 192 + (cp \div 64), 128 + (cp % 64) >>])

IsCont(b) == b >= 128 /\ b <= 191

\* bytes.decode(): strict UTF-8.  The result is [ok, text, err].
RECURSIVE Utf8DecodeFrom(_, _, _)
Utf8DecodeFrom(bs, i, acc) ==
    IF i > Len(bs) THEN [ok |-> TRUE, text |-> acc, err |-> "none"]
    ELSE LET b == bs[i]
             bad == [ok |-> FALSE, text |-> <<>>, err |-> "UnicodeDecodeError"]
             has(n) == i + n <= Len(bs)
         IN  IF b < 128 THEN Utf8DecodeFrom(bs, i + 1, Append(acc, Chr(b)))
             ELSE IF b >= 194 /\ b <= 223
             THEN IF has(1) /\ IsCont(bs[i + 1])
                  THEN Utf8DecodeFrom(bs, i + 2,
                           Append(acc, Chr((b - 192) * 64 + (bs[i + 1] - 128))))
                  ELSE bad
             ELSE IF b >= 224 /\ b <= 239
             THEN IF /\ has(2)
                     /\ IsCont(bs[i + 1])
                     /\ IsCont(bs[i + 2])
                     /\ (b = 224 => bs[i + 1] >= 160)
                     /\ (b = 237 => bs[i + 1] <= 159)
                  THEN Utf8DecodeFrom(bs, i + 3,
                           Append(acc, Chr((b - 224) * 4096 + (bs[i + 1] - 128) * 64
                                           + (bs[i + 2] - 128))))
                  ELSE bad
             ELSE IF b >= 240 /\ b <= 244
             THEN IF /\ has(3)
                     /\ IsCont(bs[i + 1])
                     /\ IsCont(bs[i + 2])
                     /\ IsCont(bs[i + 3])
                     /\ (b = 240 => bs[i + 1] >= 144)
                     /\ (b = 244 => bs[i + 1] <= 143)
                  THEN Utf8DecodeFrom(bs, i + 4,
                           Append(acc, Chr((b - 240) * 262144 + (bs[i + 1] - 128) * 4096
                                           + (bs[i + 2] - 128) * 64 + (bs[i + 3] - 128))))
                  ELSE bad
             ELSE bad

Utf8Decode(bs) == Utf8DecodeFrom(bs, 1, <<>>)

\* ------------------------------------------------------------------------
\* base64 (the standard alphabet)
\* ------------------------------------------------------------------------
B64Alphabet ==
    << "A", "B", "C", "D", "E", "F", "G", "H", "I", "J", "K", "L", "M", "N", "O", "P",
       "Q", "R", "S", "T", "U", "V", "W", "X", "Y", "Z", "a", "b", "c", "d", "e", "f",
       "g", "h", "i", "j", "k", "l", "m", "n", "o", "p", "q", "r", "s", "t", "u", "v",
       "w", "x", "y", "z", "0", "1", "2", "3", "4", "5", "6", "7", "8", "9", "+", "/" >>

B64Pad == "="

B64Values ==
    [c \in { B64Alphabet[i] : i \in 1..Len(B64Alphabet) } |-> IndexOf(B64Alphabet, c) - 1]

IsB64Char(c) == c \in DOMAIN B64Values

B64Value(c) == B64Values[c]

B64Char(v) == B64Alphabet[v + 1]

\* base64.standard_b64encode(bytes), then .decode("ascii"): groups of three
\* bytes become four characters, a last group of one or two bytes is padded.
RECURSIVE standard_b64encode(_)
standard_b64encode(bs) ==
    IF Len(bs) = 0 THEN <<>>
    ELSE IF Len(bs) = 1
    THEN << B64Char(bs[1] \div 4), B64Char((bs[1] % 4) * 16), B64Pad, B64Pad >>
    ELSE IF Len(bs) = 2
    THEN << B64Char(bs[1] \div 4),
            B64Char((bs[1] % 4) * 16 + (bs[2] \div 16)),
            B64Char((bs[2] % 16) * 4),
            B64Pad >>
    ELSE << B64Char(bs[1] \div 4),
            B64Char((bs[1] % 4) * 16 + (bs[2] \div 16)),
            B64Char((bs[2] % 16) * 4 + (bs[3] \div 64)),
            B64Char(bs[3] % 64) >>
         \o standard_b64encode(SubSeq(bs, 4, Len(bs)))

\* base64.standard_b64decode(str) (binascii.a2b_base64, not strict): characters
\* outside the alphabet are skipped, a complete run of padding ends the input,
\* an incomplete last quad is an error.  quad is the sextets of the open quad,
\* pads the padding characters seen since the last sextet.
RECURSIVE B64DecodeFrom(_, _, _, _, _)
B64DecodeFrom(s, i, quad, pads, acc) ==
    LET done == [ok |-> TRUE, bytes |-> acc, err |-> "none"]
        flush ==
            IF Len(quad) = 2 THEN acc \o << quad[1] * 4 + (quad[2] \div 16) >>
            ELSE IF Len(quad) = 3
            THEN acc \o << quad[1] * 4 + (quad[2] \div 16),
                           (quad[2] % 16) * 16 + (quad[3] \div 4) >>
            ELSE acc
    IN  IF i > Len(s)
        THEN IF Len(quad) = 0 THEN done
             ELSE [ok |-> FALSE, bytes |-> <<>>, err |-> "binascii.Error"]
        ELSE IF s[i] = B64Pad
        THEN IF Len(quad) >= 2 /\ Len(quad) + pads + 1 >= 4
             THEN [ok |-> TRUE, bytes |-> flush, err |-> "none"]
             ELSE B64DecodeFrom(s, i + 1, quad, pads + 1, acc)
        ELSE IF ~IsB64Char(s[i])
        THEN B64DecodeFrom(s, i + 1, quad, pads, acc)
        ELSE LET q == Append(quad, B64Value(s[i]))
             IN  IF Len(q) = 4
                 THEN B64DecodeFrom(s, i + 1, <<>>, 0,
                          acc \o << q[1] * 4 + (q[2] \div 16),
                                    (q[2] % 16) * 16 + (q[3] \div 4),
                                    (q[3] % 4) * 64 + q[4] >>)
                 ELSE B64DecodeFrom(s, i + 1, q, 0, acc)

standard_b64decode(s) == B64DecodeFrom(s, 1, <<>>, 0, <<>>)

\* ------------------------------------------------------------------------
\* str helpers
\* ------------------------------------------------------------------------
\* True iff sub occurs in s at index i.
OccursAt(s, sub, i) ==
    /\ i >= 1
    /\ i + Len(sub) - 1 <= Len(s)
    /\ \A k \in 1..Len(sub) : s[i + k - 1] = sub[k]

\* sub in s
Contains(s, sub) == \E i \in 1..(Len(s) + 1) : OccursAt(s, sub, i)

\* s.find(sub) + 1: the index of the first occurrence, 0 when there is none.
Find(s, sub) ==
    IF Contains(s, sub)
    THEN CHOOSE i \in 1..(Len(s) + 1) :
             /\ OccursAt(s, sub, i)
             /\ \A j \in 1..(i - 1) : ~OccursAt(s, sub, j)
    ELSE 0

\* s.partition(sep)[2]: the text after the first sep, "" when there is none.
PartitionAfter(s, sep) ==
    IF Find(s, sep) = 0 THEN <<>>
    ELSE SubSeq(s, Find(s, sep) + Len(sep), Len(s))

\* s.split(sep, 1): one or two parts.
Split1(s, sep) ==
    IF Find(s, sep) = 0 THEN << s >>
    ELSE << SubSeq(s, 1, Find(s, sep) - 1), SubSeq(s, Find(s, sep) + Len(sep), Len(s)) >>

\* s.lstrip(chars): drops every leading character that is in the set chars.
RECURSIVE LStrip(_, _)
LStrip(s, chars) ==
    IF s # <<>> /\ Head(s) \in chars THEN LStrip(Tail(s), chars) ELSE s

\* s.rsplit(sep, maxsplit=1)[0] for a one-character sep.
RSplit1Head(s, sep) ==
    IF \E i \in 1..Len(s) : s[i] = sep
    THEN SubSeq(s, 1, (CHOOSE i \in 1..Len(s) :
                           s[i] = sep /\ \A j \in (i + 1)..Len(s) : s[j] # sep) - 1)
    ELSE s

\* ------------------------------------------------------------------------
\* build.py: module-level functions
\* ------------------------------------------------------------------------
\* re.search(open + ".+" + close, s): "." matches any character but "\n".
ReSearchDirective(s, open, close) ==
    \E i \in 1..Len(s) :
        /\ OccursAt(s, open, i)
        /\ \E j \in (i + Len(open) + 1)..Len(s) :
               /\ OccursAt(s, close, j)
               /\ \A k \in (i + Len(open))..(j - 1) : s[k] # "\n"

is_jinja(string) ==
    \/ ReSearchDirective(string, << "{", "{" >>, << "}", "}" >>)
    \/ ReSearchDirective(string, << "{", "%" >>, << "%", "}" >>)

DataUriPrefix ==
    << "d", "a", "t", "a", ":", "t", "e", "x", "t", "/", "p", "l", "a", "i", "n", ";",
       "c", "h", "a", "r", "s", "e", "t", "=", "u", "t", "f", "-", "8", ";",
       "b", "a", "s", "e", "6", "4", "," >>

\* Variant of create_utf8_data_source: the text is appended as it is.
create_utf8_data_source_unencoded(string) == DataUriPrefix \o string

create_utf8_data_source(string) ==
    DataUriPrefix \o standard_b64encode(Utf8Encode(string))

\* ------------------------------------------------------------------------
\* ignition_inspector.py: IgnitionConfigInspector._decode_file_content
\* ------------------------------------------------------------------------
Base64Word == << "b", "a", "s", "e", "6", "4" >>

Base64Comma == << "b", "a", "s", "e", "6", "4", "," >>

Comma == << "," >>

\* Variant of _decode_file_content: content.split(",")[1], every comma splits.
_decode_file_content_split_all(file) ==
    LET content == file.source
        rest == PartitionAfter(content, Comma)
    IN  IF ~file.hasContents \/ ~file.hasSource
        THEN [ok |-> FALSE, text |-> <<>>, err |-> "KeyError"]
        ELSE IF Contains(content, Base64Word)
        THEN LET encoded == PartitionAfter(content, Base64Comma)
                 raw == standard_b64decode(encoded)
             IN  IF raw.ok THEN Utf8Decode(raw.bytes)
                 ELSE [ok |-> FALSE, text |-> <<>>, err |-> raw.err]
        ELSE IF Len(Split1(content, Comma)) = 2
        THEN [ok |-> TRUE, text |-> Split1(rest, Comma)[1], err |-> "none"]
        ELSE [ok |-> TRUE, text |-> content, err |-> "none"]

\* The result is [ok, text, err]: the returned str, or the exception raised.
_decode_file_content(file) ==
    LET content == file.source
    IN  IF ~file.hasContents \/ ~file.hasSource
        THEN [ok |-> FALSE, text |-> <<>>, err |-> "KeyError"]
        ELSE IF Contains(content, Base64Word)
        THEN LET encoded == PartitionAfter(content, Base64Comma)
                 raw == standard_b64decode(encoded)
             IN  IF raw.ok THEN Utf8Decode(raw.bytes)
                 ELSE [ok |-> FALSE, text |-> <<>>, err |-> raw.err]
        ELSE IF Len(Split1(content, Comma)) = 2
        THEN [ok |-> TRUE, text |-> Split1(content, Comma)[2], err |-> "none"]
        ELSE [ok |-> TRUE, text |-> content, err |-> "none"]

\* A File Entry: path, and the optional contents object with its optional source.
FileEntry(path, hasContents, hasSource, source) ==
    [path |-> path, hasContents |-> hasContents, hasSource |-> hasSource, source |-> source]

\* ------------------------------------------------------------------------
\* build.py: module constants
\* ------------------------------------------------------------------------
FILES == << "f", "i", "l", "e", "s" >>

SYSTEMD == << "s", "y", "s", "t", "e", "m", "d" >>

ENV_VARS ==
    << << "R", "O", "O", "T", "_", "P", "A", "S", "S", "W", "D" >>,
       << "A", "D", "M", "I", "N", "_", "P", "A", "S", "S", "W", "D" >>,
       << "A", "D", "M", "I", "N", "_", "S", "S", "H", "_", "K", "E", "Y", "S" >>,
       << "A", "D", "M", "I", "N", "_", "T", "O", "T", "P" >>,
       << "D", "I", "S", "K", "_", "P", "A", "S", "S", "W", "D" >>,
       << "A", "D", "G", "U", "A", "R", "D", "_", "M", "A", "C" >> >>

ADGUARD_MAC == << "A", "D", "G", "U", "A", "R", "D", "_", "M", "A", "C" >>

adguard_mac == << "a", "d", "g", "u", "a", "r", "d", "_", "m", "a", "c" >>

MacPrefix == << "0", "2", ":", "0", "0", ":", "0", "0" >>

Slash == << "/" >>

DotD == << ".", "d" >>

\* ------------------------------------------------------------------------
\* Sample texts, paths and names
\* ------------------------------------------------------------------------
HelloText == << "h", "e", "l", "l", "o", "\n" >>

TemplateLikeText == << "{", "{", " ", "a", " ", "}", "}" >>

OverrideText == << "X", "=", "1", "\n" >>

OtherOverrideText == << "Z", "=", "9", "\n" >>

FilledText == << "Y", "=", "2", "\n" >>

BarOverrideText == << "B", "=", "3", "\n" >>

PlainReference ==
    << "p", "l", "a", "i", "n", "-", "r", "e", "f", "e", "r", "e", "n", "c", "e", ",",
       "n", "o", "-", "t", "e", "m", "p", "l", "a", "t", "e", "-", "h", "e", "r", "e" >>

InlineTemplate ==
    << "{", "{", " ", "a", "d", "m", "i", "n", "_", "t", "o", "t", "p", " ", "}", "}" >>

BrokenLineTemplate ==
    << "{", "{", " ", "a", "d", "m", "i", "n", "_", "t", "o", "t", "p", "\n", "}", "}"
       >>

SuppliedMac ==
    << "a", "a", ":", "b", "b", ":", "c", "c", ":", "d", "d", ":", "e", "e", ":", "f",
       "f" >>

SecretValue == << "s", "3" >>

PathX == << "/", "e", "t", "c", "/", "x" >>

PathY == << "/", "e", "t", "c", "/", "y" >>

FooService == << "f", "o", "o", ".", "s", "e", "r", "v", "i", "c", "e" >>

BarUnit == << "b", "a", "r" >>

OverrideConf == << "o", "v", "e", "r", "r", "i", "d", "e", ".", "c", "o", "n", "f" >>

ExtraConf == << "e", "x", "t", "r", "a", ".", "c", "o", "n", "f" >>

NoContents ==
    << "N", "o", " ", "c", "o", "n", "t", "e", "n", "t", "s", " ", "a", "v", "a", "i",
       "l", "a", "b", "l", "e", "." >>

UrlWithBase64 ==
    << "h", "t", "t", "p", "s", ":", "/", "/", "h", "/", "b", "a", "s", "e", "6", "4",
       "/", "f" >>

\* ------------------------------------------------------------------------
\* State
\* ------------------------------------------------------------------------
VARIABLES
    environ,         \* os.environ after dotenv.load_dotenv(): name -> value
    jinja_vars,      \* main: the variable mapping handed to the builders
    rendered,        \* _first_pass: the document json.loads returned
    conf,            \* IgnitionBuilder._conf: files and units
    fs,              \* the asset trees files/ and systemd/: path -> text
    pc,              \* position of main / build
    fidx,            \* _add_files: index of the next File Entry
    uidx,            \* _add_systemd_overrides: index of the next Unit Entry
    phase,           \* the call that raised, once pc = "failed"
    err,             \* the exception that ended the run
    outfile,         \* IgnitionBuilder.OUTPUT_PATH on disk
    writes,          \* number of times OUTPUT_PATH was opened for writing
    reads,           \* asset paths read so far, in order
    script_written,  \* CombustionBuilder.OUTPUT_PATH was written
    text,            \* codec: the text under test
    source,          \* codec: the contents.source string at hand
    op,              \* codec: the calls made so far
    result,          \* codec: what the last call returned or raised
    config,          \* IgnitionConfigInspector.config
    ipc,             \* position of the inspector's CLI
    normalized,      \* print_files: the paths handed to print_files_by_path
    argv,            \* the arguments of the command
    printed          \* what the command echoed, one record per entry

builderVars ==
    << environ, jinja_vars, rendered, conf, fs, pc, fidx, uidx, phase, err, outfile,
       writes, reads, script_written >>

codecVars == << text, source, op, result >>

inspectorVars == << config, ipc, normalized, argv, printed >>

vars == << builderVars, codecVars, inspectorVars >>

\* ------------------------------------------------------------------------
\* Documents
\* ------------------------------------------------------------------------
Dropin(name, hasContents, contents) ==
    [name |-> name, hasContents |-> hasContents, contents |-> contents]

Unit(name, hasDropins, dropins) ==
    [name |-> name, hasDropins |-> hasDropins, dropins |-> dropins]

EmptyDoc == [files |-> <<>>, units |-> <<>>]

\* The File Entries a rendered document may hold.  Their contents: no contents
\* object, a contents object without source, an empty source, an inline
\* template, a template whose directive spans a line break, a plain reference.
RenderedFileEntries ==
    { FileEntry(PathX, FALSE, FALSE, <<>>),
      FileEntry(PathX, TRUE, TRUE, <<>>),
      FileEntry(PathX, TRUE, TRUE, InlineTemplate),
      FileEntry(PathX, TRUE, TRUE, PlainReference),
      FileEntry(PathY, TRUE, FALSE, <<>>),
      FileEntry(PathY, TRUE, TRUE, BrokenLineTemplate) }

RECURSIVE SeqsUpTo(_, _)
SeqsUpTo(S, n) ==
    IF n = 0 THEN { <<>> }
    ELSE SeqsUpTo(S, n - 1)
         \cup { Append(q, x) : q \in { r \in SeqsUpTo(S, n - 1) : Len(r) = n - 1 }, x \in S }

RenderedUnitLists ==
    { <<>>,
      << Unit(FooService, FALSE, <<>>), Unit(BarUnit, TRUE, <<>>) >>,
      << Unit(FooService, TRUE, << Dropin(OverrideConf, TRUE, <<>>) >>) >>,
      << Unit(FooService, TRUE, << Dropin(OverrideConf, FALSE, <<>>) >>) >>,
      << Unit(FooService, TRUE, << Dropin(ExtraConf, TRUE, FilledText),
                                   Dropin(OverrideConf, TRUE, <<>>) >>) >>,
      << Unit(FooService, TRUE, << Dropin(OverrideConf, TRUE, <<>>),
                                   Dropin(ExtraConf, TRUE, <<>>) >>) >>,
      << Unit(BarUnit, TRUE, << Dropin(OverrideConf, TRUE, <<>>) >>),
         Unit(FooService, TRUE, << Dropin(OverrideConf, TRUE, <<>>) >>) >> }

RenderedDocs ==
    { [files |-> f, units |-> u] :
        f \in SeqsUpTo(RenderedFileEntries, MaxFiles), u \in RenderedUnitLists }

\* ------------------------------------------------------------------------
\* build.py: main and the variable mapping
\* ------------------------------------------------------------------------
HexDigits ==
    << "0", "1", "2", "3", "4", "5", "6", "7", "8", "9", "a", "b", "c", "d", "e", "f" >>

\* "{:02x}".format(b)
Hex2(b) == << HexDigits[(b \div 16) + 1], HexDigits[(b % 16) + 1] >>

\* The values of secrets.randbits(8) the model draws.
RandBits8 == {0, 10, 171, 255}

gen_random_locally_administered_mac(b1, b2, b3) ==
    MacPrefix \o << ":" >> \o Hex2(b1) \o << ":" >> \o Hex2(b2) \o << ":" >> \o Hex2(b3)

\* str.lower()
Lower(s) ==
    [i \in 1..Len(s) |->
        IF Ord(s[i]) >= 65 /\ Ord(s[i]) <= 90 THEN Chr(Ord(s[i]) + 32) ELSE s[i]]

EnvNames == { ENV_VARS[i] : i \in 1..Len(ENV_VARS) }

\* {i.lower(): os.environ[i] for i in ENV_VARS}
LoweredEnv(env) ==
    [k \in { Lower(n) : n \in EnvNames } |->
        env[CHOOSE n \in EnvNames : Lower(n) = k]]

\* dict.setdefault(key, default)
SetDefault(d, key, default) ==
    IF key \in DOMAIN d THEN d
    ELSE [k \in DOMAIN d \cup {key} |-> IF k = key THEN default ELSE d[k]]

NoVars == [k \in {} |-> <<>>]

\* ------------------------------------------------------------------------
\* build.py: IgnitionBuilder
\* ------------------------------------------------------------------------
\* What jinja2.Template(source).render(vars) may do with an inline template:
\* raise, or return a text (which may itself hold directive characters).
RenderOutcomes ==
    { [ok |-> FALSE, text |-> <<>>],
      [ok |-> TRUE, text |-> TemplateLikeText] }

\* FILES.joinpath(file["path"].lstrip("/"))
AssetPath(path) == FILES \o Slash \o LStrip(path, {"/"})

\* Variant of _set_file_source: a source that is no template is embedded too.
_set_file_source_embeds_all(file, fsys, rendering) ==
    LET src == IF file.hasContents /\ file.hasSource THEN file.source ELSE <<>>
        source_file == AssetPath(file.path)
        raise(e) == [ok |-> FALSE, file |-> file, err |-> e, read |-> <<>>]
        assign(content, read) ==
            IF file.hasContents
            THEN [ok |-> TRUE,
                  file |-> [file EXCEPT !.hasSource = TRUE,
                                        !.source = create_utf8_data_source(content)],
                  err |-> "none", read |-> read]
            ELSE raise("KeyError")
    IN  IF src = <<>>
        THEN IF source_file \in DOMAIN fsys
             THEN assign(fsys[source_file], << source_file >>)
             ELSE raise("FileNotFoundError")
        ELSE IF is_jinja(src)
        THEN IF rendering.ok THEN assign(rendering.text, <<>>)
             ELSE raise("TemplateError")
        ELSE assign(src, <<>>)

\* _set_file_source(file): the entry afterwards, the asset read, or the
\* exception raised.  rendering is the outcome of the template engine, used
\* only for an inline template.
_set_file_source(file, fsys, rendering) ==
    LET src == IF file.hasContents /\ file.hasSource THEN file.source ELSE <<>>
        source_file == AssetPath(file.path)
        raise(e) == [ok |-> FALSE, file |-> file, err |-> e, read |-> <<>>]
        assign(content, read) ==
            IF file.hasContents
            THEN [ok |-> TRUE,
                  file |-> [file EXCEPT !.hasSource = TRUE,
                                        !.source = create_utf8_data_source(content)],
                  err |-> "none", read |-> read]
            ELSE raise("KeyError")
    IN  IF src = <<>>
        THEN IF source_file \in DOMAIN fsys
             THEN assign(fsys[source_file], << source_file >>)
             ELSE raise("FileNotFoundError")
        ELSE IF is_jinja(src)
        THEN IF rendering.ok THEN assign(rendering.text, <<>>)
             ELSE raise("TemplateError")
        ELSE [ok |-> TRUE, file |-> file, err |-> "none", read |-> <<>>]

\* SYSTEMD.joinpath(f"{unit_name}.d").joinpath(dropin["name"])
OverridePath(unit_name, dropin_name) ==
    SYSTEMD \o Slash \o unit_name \o DotD \o Slash \o dropin_name

\* Variant of UnitBaseName: the unit name with its suffix.
UnitBaseName_whole(name) == name

\* unit["name"].rsplit(".", maxsplit=1)[0]
UnitBaseName(name) == RSplit1Head(name, ".")

\* _process_systemd_dropin(dropin, overrides_dir)
_process_systemd_dropin(dropin, unit_name, fsys) ==
    LET dropin_file == OverridePath(unit_name, dropin.name)
        raise(e) == [ok |-> FALSE, dropin |-> dropin, err |-> e, read |-> <<>>]
    IN  IF ~dropin.hasContents THEN raise("KeyError")
        ELSE IF dropin.contents = <<>>
        THEN IF dropin_file \in DOMAIN fsys
             THEN [ok |-> TRUE, dropin |-> [dropin EXCEPT !.contents = fsys[dropin_file]],
                   err |-> "none", read |-> << dropin_file >>]
             ELSE raise("FileNotFoundError")
        ELSE [ok |-> TRUE, dropin |-> dropin, err |-> "none", read |-> <<>>]

\* _process_systemd_dropins(unit_name, dropins): the drop-ins in order, up to
\* the first one that raises; those already processed stay modified.
RECURSIVE ProcessDropinsFrom(_, _, _, _, _)
ProcessDropinsFrom(unit_name, dropins, i, fsys, read) ==
    IF i > Len(dropins)
    THEN [ok |-> TRUE, dropins |-> dropins, err |-> "none", read |-> read]
    ELSE LET r == _process_systemd_dropin(dropins[i], unit_name, fsys)
         IN  IF r.ok
             THEN ProcessDropinsFrom(unit_name, [dropins EXCEPT ![i] = r.dropin], i + 1,
                                     fsys, read \o r.read)
             ELSE [ok |-> FALSE, dropins |-> dropins, err |-> r.err, read |-> read]

_process_systemd_dropins(unit_name, dropins, fsys) ==
    ProcessDropinsFrom(unit_name, dropins, 1, fsys, <<>>)

\* One iteration of the loop of _add_systemd_overrides.
ProcessUnit(unit, fsys) ==
    IF unit.hasDropins /\ unit.dropins # <<>>
    THEN LET r == _process_systemd_dropins(UnitBaseName(unit.name), unit.dropins, fsys)
         IN  [ok |-> r.ok, unit |-> [unit EXCEPT !.dropins = r.dropins],
              err |-> r.err, read |-> r.read]
    ELSE [ok |-> TRUE, unit |-> unit, err |-> "none", read |-> <<>>]

\* ------------------------------------------------------------------------
\* The builder as a state machine: main() and IgnitionBuilder.build()
\* ------------------------------------------------------------------------
NoFile == [exists |-> FALSE, doc |-> EmptyDoc]

\* An artifact left by an earlier build.
StaleFile ==
    [exists |-> TRUE,
     doc |-> [files |-> << FileEntry(PathY, TRUE, TRUE, PlainReference) >>, units |-> <<>>]]

EnvValue(n) == IF n = ADGUARD_MAC THEN SuppliedMac ELSE SecretValue

\* The environments: every variable of ENV_VARS set, but for at most MaxAbsent.
Environments ==
    { [n \in EnvNames \ A |-> EnvValue(n)] :
        A \in { B \in SUBSET EnvNames : Cardinality(B) <= MaxAbsent } }

\* The assets a tree may hold: files/etc/x, files/etc/y, and override.conf
\* under systemd/foo.d, systemd/foo.service.d and systemd/bar.d.
FooDir == << "f", "o", "o" >>

AssetX == AssetPath(PathX)

AssetY == AssetPath(PathY)

OverrideFoo == OverridePath(FooDir, OverrideConf)

OverrideFooService == OverridePath(FooService, OverrideConf)

OverrideBar == OverridePath(BarUnit, OverrideConf)

AssetText(p) ==
    IF p = AssetX THEN HelloText
    ELSE IF p = AssetY THEN TemplateLikeText
    ELSE IF p = OverrideFoo THEN OverrideText
    ELSE IF p = OverrideFooService THEN OtherOverrideText
    ELSE BarOverrideText

\* The asset trees of the model.
AssetTrees ==
    { [p \in S |-> AssetText(p)] :
        S \in { {AssetX, AssetY, OverrideFoo, OverrideFooService, OverrideBar},
                {AssetX, AssetY, OverrideFoo},
                {AssetX, AssetY, OverrideFooService},
                {AssetY, OverrideFoo, OverrideBar} } }

NoResult == [ok |-> TRUE, text |-> <<>>, err |-> "none", flag |-> FALSE]

IdleBuilder ==
    /\ environ = NoVars
    /\ jinja_vars = NoVars
    /\ rendered = EmptyDoc
    /\ conf = EmptyDoc
    /\ fs = NoVars
    /\ pc = "idle"
    /\ fidx = 0
    /\ uidx = 0
    /\ phase = "none"
    /\ err = "none"
    /\ outfile = NoFile
    /\ writes = 0
    /\ reads = <<>>
    /\ script_written = FALSE

IdleCodec ==
    /\ text = <<>>
    /\ source = <<>>
    /\ op = "idle"
    /\ result = NoResult

IdleInspector ==
    /\ config = EmptyDoc
    /\ ipc = "idle"
    /\ normalized = <<>>
    /\ argv = <<>>
    /\ printed = <<>>

Init ==
    /\ environ \in Environments
    /\ jinja_vars = NoVars
    /\ rendered = EmptyDoc
    /\ conf = EmptyDoc
    /\ fs \in AssetTrees
    /\ pc = "main"
    /\ fidx = 0
    /\ uidx = 0
    /\ phase = "none"
    /\ err = "none"
    /\ outfile \in {NoFile, StaleFile}
    /\ writes = 0
    /\ reads = <<>>
    /\ script_written = FALSE
    /\ IdleCodec
    /\ IdleInspector

\* Variant of Abort: the document is written on the way out, as a
\* "finally: self._write()" would.
Abort_writes(ph, e) ==
    /\ pc' = "failed"
    /\ phase' = ph
    /\ err' = e
    /\ outfile' = [exists |-> TRUE, doc |-> conf]
    /\ writes' = writes + 1
    /\ UNCHANGED script_written

\* An exception leaves build() and main(): nothing catches it, nothing is
\* written on the way out.
Abort(ph, e) ==
    /\ pc' = "failed"
    /\ phase' = ph
    /\ err' = e
    /\ UNCHANGED << outfile, writes, script_written >>

\* main: the variable mapping is built and handed to IgnitionBuilder.
Main ==
    /\ pc = "main"
    /\ EnvNames \subseteq DOMAIN environ
    /\ \E b1 \in RandBits8, b2 \in RandBits8, b3 \in RandBits8 :
           jinja_vars' = SetDefault(LoweredEnv(environ), adguard_mac,
                                    gen_random_locally_administered_mac(b1, b2, b3))
    /\ pc' = "first_pass"
    /\ UNCHANGED << environ, rendered, conf, fs, fidx, uidx, phase, err, outfile, writes,
                    reads, script_written, codecVars, inspectorVars >>

\* main: os.environ[i] raises KeyError for a variable that is not set.
MainKeyError ==
    /\ pc = "main"
    /\ ~(EnvNames \subseteq DOMAIN environ)
    /\ Abort("main", "KeyError")
    /\ UNCHANGED << environ, jinja_vars, rendered, conf, fs, fidx, uidx, reads,
                    codecVars, inspectorVars >>

\* _first_pass: the template renders to a document.
FirstPass ==
    /\ pc = "first_pass"
    /\ \E doc \in RenderedDocs :
           /\ rendered' = doc
           /\ conf' = doc
    /\ pc' = "add_files"
    /\ fidx' = 1
    /\ UNCHANGED << environ, jinja_vars, fs, uidx, phase, err, outfile, writes, reads,
                    script_written, codecVars, inspectorVars >>

\* _first_pass: the template does not render, or not to JSON.
FirstPassError ==
    /\ pc = "first_pass"
    /\ \E e \in {"TemplateError", "JSONDecodeError"} : Abort("first_pass", e)
    /\ UNCHANGED << environ, jinja_vars, rendered, conf, fs, fidx, uidx, reads,
                    codecVars, inspectorVars >>

\* _add_files: one iteration, _set_file_source returns.
AddFile ==
    /\ pc \in {"add_files", "add_files_again"}
    /\ fidx <= Len(conf.files)
    /\ \E rendering \in RenderOutcomes :
           LET r == _set_file_source(conf.files[fidx], fs, rendering)
           IN  /\ r.ok
               /\ conf' = [conf EXCEPT !.files[fidx] = r.file]
               /\ reads' = reads \o r.read
    /\ fidx' = fidx + 1
    /\ UNCHANGED << environ, jinja_vars, rendered, fs, pc, uidx, phase, err, outfile,
                    writes, script_written, codecVars, inspectorVars >>

\* _add_files: one iteration, _set_file_source raises.
AddFileError ==
    /\ pc \in {"add_files", "add_files_again"}
    /\ fidx <= Len(conf.files)
    /\ \E rendering \in RenderOutcomes :
           LET r == _set_file_source(conf.files[fidx], fs, rendering)
           IN  /\ ~r.ok
               /\ Abort(pc, r.err)
    /\ UNCHANGED << environ, jinja_vars, rendered, conf, fs, fidx, uidx, reads,
                    codecVars, inspectorVars >>

\* _add_files returns, _add_systemd_overrides starts.
AddFilesReturn ==
    /\ pc = "add_files"
    /\ fidx > Len(conf.files)
    /\ pc' = "add_systemd_overrides"
    /\ uidx' = 1
    /\ UNCHANGED << environ, jinja_vars, rendered, conf, fs, fidx, phase, err, outfile,
                    writes, reads, script_written, codecVars, inspectorVars >>

\* _add_systemd_overrides: one iteration.
AddSystemdOverride ==
    /\ pc = "add_systemd_overrides"
    /\ uidx <= Len(conf.units)
    /\ LET r == ProcessUnit(conf.units[uidx], fs)
       IN  /\ r.ok
           /\ conf' = [conf EXCEPT !.units[uidx] = r.unit]
           /\ reads' = reads \o r.read
    /\ uidx' = uidx + 1
    /\ UNCHANGED << environ, jinja_vars, rendered, fs, pc, fidx, phase, err, outfile,
                    writes, script_written, codecVars, inspectorVars >>

\* _add_systemd_overrides: one iteration, a drop-in raises.
AddSystemdOverrideError ==
    /\ pc = "add_systemd_overrides"
    /\ uidx <= Len(conf.units)
    /\ LET r == ProcessUnit(conf.units[uidx], fs)
       IN  /\ ~r.ok
           /\ conf' = [conf EXCEPT !.units[uidx] = r.unit]
           /\ reads' = reads \o r.read
           /\ Abort("add_systemd_overrides", r.err)
    /\ UNCHANGED << environ, jinja_vars, rendered, fs, fidx, uidx, codecVars,
                    inspectorVars >>

\* _add_systemd_overrides returns.
AddSystemdOverridesReturn ==
    /\ pc = "add_systemd_overrides"
    /\ uidx > Len(conf.units)
    /\ pc' = "write"
    /\ UNCHANGED << environ, jinja_vars, rendered, conf, fs, fidx, uidx, phase, err,
                    outfile, writes, reads, script_written, codecVars, inspectorVars >>

\* _write: the document replaces whatever OUTPUT_PATH held.
Write ==
    /\ pc = "write"
    /\ outfile' = [exists |-> TRUE, doc |-> conf]
    /\ writes' = writes + 1
    /\ pc' = "combustion"
    /\ UNCHANGED << environ, jinja_vars, rendered, conf, fs, fidx, uidx, phase, err,
                    reads, script_written, codecVars, inspectorVars >>

\* _write: mkdir or open raises.
WriteError ==
    /\ pc = "write"
    /\ Abort("write", "OSError")
    /\ UNCHANGED << environ, jinja_vars, rendered, conf, fs, fidx, uidx, reads,
                    codecVars, inspectorVars >>

\* CombustionBuilder.build
CombustionBuild ==
    /\ pc = "combustion"
    /\ script_written' = TRUE
    /\ pc' = "done"
    /\ UNCHANGED << environ, jinja_vars, rendered, conf, fs, fidx, uidx, phase, err,
                    outfile, writes, reads, codecVars, inspectorVars >>

\* CombustionBuilder.build raises.
CombustionBuildError ==
    /\ pc = "combustion"
    /\ \E e \in {"TemplateError", "OSError"} : Abort("combustion", e)
    /\ UNCHANGED << environ, jinja_vars, rendered, conf, fs, fidx, uidx, reads,
                    codecVars, inspectorVars >>

Next ==
    \/ Main
    \/ MainKeyError
    \/ FirstPass
    \/ FirstPassError
    \/ AddFile
    \/ AddFileError
    \/ AddFilesReturn
    \/ AddSystemdOverride
    \/ AddSystemdOverrideError
    \/ AddSystemdOverridesReturn
    \/ Write
    \/ WriteError
    \/ CombustionBuild
    \/ CombustionBuildError

Spec == Init /\ [][Next]_vars

\* ------------------------------------------------------------------------
\* _add_files run a second time on the document it has completed
\* ------------------------------------------------------------------------
AddFilesAgain ==
    /\ pc = "add_systemd_overrides"
    /\ uidx = 1
    /\ pc' = "add_files_again"
    /\ fidx' = 1
    /\ UNCHANGED << environ, jinja_vars, rendered, conf, fs, uidx, phase, err, outfile,
                    writes, reads, script_written, codecVars, inspectorVars >>

AddFilesAgainReturn ==
    /\ pc = "add_files_again"
    /\ fidx > Len(conf.files)
    /\ pc' = "rerun_done"
    /\ UNCHANGED << environ, jinja_vars, rendered, conf, fs, fidx, uidx, phase, err,
                    outfile, writes, reads, script_written, codecVars, inspectorVars >>

\* An IgnitionBuilder constructed with a complete variable mapping, about to
\* run _first_pass.
InitRerun ==
    /\ environ \in { e \in Environments : EnvNames \subseteq DOMAIN e }
    /\ jinja_vars = LoweredEnv(environ)
    /\ rendered = EmptyDoc
    /\ conf = EmptyDoc
    /\ fs \in AssetTrees
    /\ pc = "first_pass"
    /\ fidx = 0
    /\ uidx = 0
    /\ phase = "none"
    /\ err = "none"
    /\ outfile = NoFile
    /\ writes = 0
    /\ reads = <<>>
    /\ script_written = FALSE
    /\ IdleCodec
    /\ IdleInspector

NextRerun ==
    \/ FirstPass
    \/ FirstPassError
    \/ AddFile
    \/ AddFileError
    \/ AddFilesReturn
    \/ AddFilesAgain
    \/ AddFilesAgainReturn

SpecRerun == InitRerun /\ [][NextRerun]_vars

\* ------------------------------------------------------------------------
\* The embedding and its inverse on texts: build.py's create_utf8_data_source
\* and is_jinja, the inspector's _decode_file_content
\* ------------------------------------------------------------------------
Chunks ==
    { Base64Word, Comma, << "a" >>, << "{", "{" >>, << "}", "}" >>, << "{", "%" >>,
      << "%", "}" >>, << "\n" >>, << "U+233" >>, << "d", "a", "t", "a", ":" >>,
      << "Y", "Q", "=", "=" >> }

\* The texts: at most MaxChunks chunks in a row.
Texts == { Flatten(q) : q \in SeqsUpTo(Chunks, MaxChunks) }

InitCodec ==
    /\ text \in Texts
    /\ source = text
    /\ op = "none"
    /\ result = NoResult
    /\ IdleBuilder
    /\ IdleInspector

\* The builder embeds the text as contents.source.
Embed ==
    /\ op = "none"
    /\ source' = create_utf8_data_source(text)
    /\ op' = "embedded"
    /\ UNCHANGED << text, result, builderVars, inspectorVars >>

\* The inspector decodes a File Entry whose contents.source is the string at
\* hand: the text itself, or its embedding.
Decode ==
    /\ op \in {"none", "embedded"}
    /\ LET r == _decode_file_content(FileEntry(PathX, TRUE, TRUE, source))
       IN  result' = [ok |-> r.ok, text |-> r.text, err |-> r.err, flag |-> FALSE]
    /\ op' = IF op = "embedded" THEN "roundtrip" ELSE "decoded"
    /\ UNCHANGED << text, source, builderVars, inspectorVars >>

\* The builder asks whether the string is an inline template.
IsJinja ==
    /\ op = "none"
    /\ result' = [ok |-> TRUE, text |-> <<>>, err |-> "none", flag |-> is_jinja(source)]
    /\ op' = "is_jinja"
    /\ UNCHANGED << text, source, builderVars, inspectorVars >>

NextCodec == Embed \/ Decode \/ IsJinja

SpecCodec == InitCodec /\ [][NextCodec]_vars

\* ------------------------------------------------------------------------
\* ignition_inspector.py: the CLI
\* ------------------------------------------------------------------------
\* A File Entry as the inspector reads it: with the optional mode.
InspectedFile(path, hasContents, hasSource, src, hasMode, mode) ==
    [path |-> path, hasContents |-> hasContents, hasSource |-> hasSource, source |-> src,
     hasMode |-> hasMode, mode |-> mode]

\* f"{n:o}"
RECURSIVE Octal(_)
Octal(n) ==
    IF n < 8 THEN << HexDigits[n + 1] >>
    ELSE Octal(n \div 8) \o << HexDigits[(n % 8) + 1] >>

\* The documents the inspector is run on.
InspectedDocs ==
    { EmptyDoc,
      [files |-> << InspectedFile(PathX, TRUE, TRUE, create_utf8_data_source(HelloText),
                                  TRUE, 420),
                    InspectedFile(PathY, TRUE, TRUE, PlainReference, FALSE, 0) >>,
       units |-> << Unit(FooService, TRUE, << Dropin(OverrideConf, TRUE, OverrideText) >>),
                    Unit(BarUnit, FALSE, <<>>) >>],
      [files |-> << InspectedFile(PathY, TRUE, TRUE,
                                  create_utf8_data_source(TemplateLikeText), TRUE, 0),
                    InspectedFile(PathX, TRUE, TRUE, UrlWithBase64, TRUE, 493),
                    InspectedFile(PathY, TRUE, TRUE, PlainReference, FALSE, 0) >>,
       units |-> << Unit(BarUnit, TRUE, << Dropin(OverrideConf, FALSE, <<>>),
                                          Dropin(ExtraConf, TRUE, FilledText) >>) >>],
      [files |-> << InspectedFile(PathY, TRUE, TRUE, PlainReference, TRUE, 420),
                    InspectedFile(PathX, FALSE, FALSE, <<>>, FALSE, 0) >>,
       units |-> <<>>] }

\* The paths a user gives to the "files" command, as str(pathlib.Path(arg)).
UserPaths ==
    { PathX, PathY, FILES \o PathX, FILES \o Slash \o FILES \o PathY,
      << "e", "t", "c", "/", "x" >>, << "s" >> \o PathX }

UnitNames == { FooService, BarUnit, FooDir }

InitInspector ==
    /\ config = EmptyDoc
    /\ ipc = "start"
    /\ normalized = <<>>
    /\ argv = <<>>
    /\ printed = <<>>
    /\ IdleBuilder
    /\ IdleCodec

\* main (the callback): IgnitionConfigInspector(path) loads the document.
Load ==
    /\ ipc = "start"
    /\ config' \in InspectedDocs
    /\ ipc' = "loaded"
    /\ UNCHANGED << normalized, argv, printed, builderVars, codecVars >>

\* main (the callback): the file is missing or is not JSON.
LoadError ==
    /\ ipc = "start"
    /\ ipc' = "failed"
    /\ UNCHANGED << config, normalized, argv, printed, builderVars, codecVars >>

\* _print_file: what is echoed for one File Entry.
PrintedFile(file) ==
    [path |-> file.path,
     mode |-> IF file.hasMode /\ file.mode # 0 THEN Octal(file.mode) ELSE << "?" >>,
     content |-> _decode_file_content(file).text]

\* The entries a loop over files echoes: each selected entry in document order,
\* up to the first one whose decoding raises.
\* name in names
InList(name, names) == \E k \in 1..Len(names) : names[k] = name

\* The entries a loop over files echoes: each selected entry in document order,
\* up to the first one whose decoding raises.  Every entry is selected when
\* all is TRUE, and else those whose path is in paths.
RECURSIVE PrintFilesFrom(_, _, _, _, _)
PrintFilesFrom(files, i, all, paths, out) ==
    IF i > Len(files) THEN [ok |-> TRUE, out |-> out]
    ELSE IF ~all /\ ~InList(files[i].path, paths)
    THEN PrintFilesFrom(files, i + 1, all, paths, out)
    ELSE IF ~_decode_file_content(files[i]).ok THEN [ok |-> FALSE, out |-> out]
    ELSE PrintFilesFrom(files, i + 1, all, paths, Append(out, PrintedFile(files[i])))

\* IgnitionConfigInspector.print_files
print_files(files) == PrintFilesFrom(files, 1, TRUE, <<>>, <<>>)

\* IgnitionConfigInspector.print_files_by_path
print_files_by_path(files, paths) == PrintFilesFrom(files, 1, FALSE, paths, <<>>)

\* str(file).lstrip("files")
NormalizeUserPath(p) == LStrip(p, {"f", "i", "l", "e", "s"})

\* The "files" command.  With no path it prints every File Entry.
FilesCommandOutput(files, args) ==
    IF args # <<>>
    THEN print_files_by_path(files, [k \in 1..Len(args) |-> NormalizeUserPath(args[k])])
    ELSE print_files(files)

\* The "files" command returns.
FilesCmd ==
    /\ ipc = "loaded"
    /\ \E args \in SeqsUpTo(UserPaths, MaxArgs) :
           /\ FilesCommandOutput(config.files, args).ok
           /\ argv' = args
           /\ normalized' = [k \in 1..Len(args) |-> NormalizeUserPath(args[k])]
           /\ printed' = FilesCommandOutput(config.files, args).out
    /\ ipc' = "files_done"
    /\ UNCHANGED << config, builderVars, codecVars >>

\* The "files" command raises while decoding an entry.
FilesCmdError ==
    /\ ipc = "loaded"
    /\ \E args \in SeqsUpTo(UserPaths, MaxArgs) :
           /\ ~FilesCommandOutput(config.files, args).ok
           /\ argv' = args
           /\ normalized' = [k \in 1..Len(args) |-> NormalizeUserPath(args[k])]
           /\ printed' = FilesCommandOutput(config.files, args).out
    /\ ipc' = "failed"
    /\ UNCHANGED << config, builderVars, codecVars >>

\* _print_systemd_dropin for every drop-in of the selected units: every unit
\* when all is TRUE, and else those whose name is in names.
RECURSIVE PrintDropinsFrom(_, _, _, _, _)
PrintDropinsFrom(units, i, all, names, out) ==
    IF i > Len(units) THEN out
    ELSE IF /\ all \/ InList(units[i].name, names)
            /\ units[i].hasDropins
            /\ units[i].dropins # <<>>
    THEN PrintDropinsFrom(units, i + 1, all, names,
             out \o [d \in 1..Len(units[i].dropins) |->
                        [path |-> units[i].name,
                         mode |-> units[i].dropins[d].name,
                         content |-> IF units[i].dropins[d].hasContents
                                     THEN units[i].dropins[d].contents
                                     ELSE NoContents]])
    ELSE PrintDropinsFrom(units, i + 1, all, names, out)

\* The "systemd-dropins" command.
SystemdDropinsCmd ==
    /\ ipc = "loaded"
    /\ \E names \in SeqsUpTo(UnitNames, MaxArgs) :
           /\ argv' = names
           /\ printed' = PrintDropinsFrom(config.units, 1, names = <<>>, names, <<>>)
    /\ ipc' = "dropins_done"
    /\ UNCHANGED << config, normalized, builderVars, codecVars >>

NextInspector == Load \/ LoadError \/ FilesCmd \/ FilesCmdError \/ SystemdDropinsCmd

SpecInspector == InitInspector /\ [][NextInspector]_vars

\* ------------------------------------------------------------------------
\* Properties
\* ------------------------------------------------------------------------
\* The File Entry or Unit Entry at index i has been attempted by its loop.
FileAttempted(i) ==
    \/ pc = "add_files" /\ fidx > i
    \/ pc = "failed" /\ phase = "add_files" /\ fidx >= i
    \/ pc \in {"add_systemd_overrides", "write", "combustion", "done"}
    \/ pc = "failed" /\ phase \in {"add_systemd_overrides", "write", "combustion"}

UnitAttempted(u) ==
    \/ pc = "add_systemd_overrides" /\ uidx > u
    \/ pc = "failed" /\ phase = "add_systemd_overrides" /\ uidx >= u
    \/ pc \in {"write", "combustion", "done"}
    \/ pc = "failed" /\ phase \in {"write", "combustion"}

\* The Unit Entry at index u has been processed without an exception.
UnitCompleted(u) ==
    /\ UnitAttempted(u)
    /\ ~(pc = "failed" /\ phase = "add_systemd_overrides" /\ uidx = u)

\* The text holds an opening mark and, later, the closing mark.
HasDirective(s, open, close) ==
    \E i \in 1..Len(s) :
        /\ OccursAt(s, open, i)
        /\ \E j \in (i + Len(open))..Len(s) : OccursAt(s, close, j)

\* A substitution directive or a control directive.
ContainsDirective(s) ==
    \/ HasDirective(s, << "{", "{" >>, << "}", "}" >>)
    \/ HasDirective(s, << "{", "%" >>, << "%", "}" >>)

\* C1: the output file is written only after the first pass, file
\* materialization and override materialization have all completed, at most
\* once and with the whole document; a run in which file or override
\* materialization fails never writes to the output path.
BuildIsAllOrNothing ==
    /\ writes <= 1
    /\ writes = 1 =>
           /\ pc \in {"combustion", "done"} \/ (pc = "failed" /\ phase = "combustion")
           /\ fidx > Len(conf.files)
           /\ uidx > Len(conf.units)
           /\ outfile = [exists |-> TRUE, doc |-> conf]
    /\ (pc = "failed" /\ phase \in {"add_files", "add_systemd_overrides"}) =>
           /\ writes = 0
           /\ outfile \in {NoFile, StaleFile}

\* C1 witness: file materialization failed on a missing asset after an earlier
\* entry had been embedded in memory.
MaterializationFailedMidway ==
    /\ pc = "failed"
    /\ phase = "add_files"
    /\ err = "FileNotFoundError"
    /\ fidx > 1
    /\ conf.files[1] # rendered.files[1]

\* C2: decoding the embedding of a text returns exactly the text.
RoundTripExact ==
    op = "roundtrip" => (result.ok /\ result.text = text)

\* C2 witness: a text holding "base64," and a character outside ASCII went
\* through the round trip.
RoundTripOfBase64Text ==
    /\ op = "roundtrip"
    /\ Contains(text, Base64Comma)
    /\ Contains(text, << "U+233" >>)

\* The asset of a File Entry: the path minus its leading slash, under files/.
PathMinusLeadingSlash(path) ==
    IF path # <<>> /\ Head(path) = "/" THEN Tail(path) ELSE path

\* C3: a File Entry whose contents.source is absent (also with no contents
\* object) or empty, and whose asset exists, is materialized without failure
\* and its contents.source is then the embedding of the asset's text.
ExternallySourcedEntryIsEmbedded ==
    \A i \in 1..Len(rendered.files) :
        LET f == rendered.files[i]
            asset == FILES \o Slash \o PathMinusLeadingSlash(f.path)
        IN  ( /\ FileAttempted(i)
              /\ ~f.hasContents \/ ~f.hasSource \/ f.source = <<>>
              /\ asset \in DOMAIN fs )
            => /\ ~(pc = "failed" /\ phase = "add_files" /\ fidx = i)
               /\ conf.files[i].hasContents
               /\ conf.files[i].hasSource
               /\ conf.files[i].source = create_utf8_data_source(fs[asset])

\* A File Entry that is already resolved: a source that is not empty and
\* holds no directive.
Resolved(f) ==
    /\ f.hasContents
    /\ f.hasSource
    /\ f.source # <<>>
    /\ ~ContainsDirective(f.source)

\* C4: an already resolved File Entry is never modified: in memory and in the
\* written document it is the entry the first pass produced.
ResolvedEntriesPassThrough ==
    /\ Len(conf.files) = Len(rendered.files)
    /\ \A i \in 1..Len(rendered.files) :
           Resolved(rendered.files[i]) =>
               /\ conf.files[i] = rendered.files[i]
               /\ writes = 1 => outfile.doc.files[i] = rendered.files[i]

\* C4 witness: a document was written in which a resolved entry stands next
\* to an entry the build embedded.
ResolvedNextToEmbedded ==
    /\ writes = 1
    /\ \E i \in 1..Len(rendered.files) : \E j \in 1..Len(rendered.files) :
           /\ Resolved(rendered.files[i])
           /\ outfile.doc.files[j] # rendered.files[j]

\* C5: is_jinja is true exactly of the texts that hold a directive, those
\* with an empty body or a line break in the directive included.
IsJinjaIffDirective ==
    op = "is_jinja" => (result.flag <=> ContainsDirective(source))

\* The unit of C6 and its drop-in.
IsFooOverride(unit, d) ==
    /\ unit.name = FooService
    /\ unit.hasDropins
    /\ d \in 1..Len(unit.dropins)
    /\ unit.dropins[d].name = OverrideConf
    /\ unit.dropins[d].hasContents
    /\ unit.dropins[d].contents = <<>>

\* C6 as stated: the empty override.conf of foo.service is filled with the text
\* of systemd/foo.service.d/override.conf.
OverrideReadFromUnitNameDir ==
    \A u \in 1..Len(rendered.units) :
        ( /\ UnitAttempted(u)
          /\ Len(rendered.units[u].dropins) = 1
          /\ IsFooOverride(rendered.units[u], 1)
          /\ OverrideFooService \in DOMAIN fs )
        => /\ UnitCompleted(u)
           /\ conf.units[u].dropins[1].contents = fs[OverrideFooService]

\* C6 as amended: the empty override.conf of foo.service is filled with the raw
\* text of systemd/foo.d/override.conf (the unit name without its last
\* dot-suffix names the directory), which the build read; a drop-in whose
\* contents are not empty is left as it was.
OverrideReadFromUnitBaseNameDir ==
    \A u \in 1..Len(rendered.units) :
        UnitCompleted(u) =>
            /\ Len(conf.units[u].dropins) = Len(rendered.units[u].dropins)
            /\ \A d \in 1..Len(rendered.units[u].dropins) :
                   /\ IsFooOverride(rendered.units[u], d) =>
                          /\ OverrideFoo \in DOMAIN fs
                          /\ InList(OverrideFoo, reads)
                          /\ conf.units[u].dropins[d].contents = fs[OverrideFoo]
                          /\ conf.units[u].dropins[d].contents
                                 # create_utf8_data_source(fs[OverrideFoo])
                   /\ rendered.units[u].dropins[d].contents # <<>> =>
                          conf.units[u].dropins[d] = rendered.units[u].dropins[d]

\* C6 witness: a build ended with the override of foo.service filled in, next
\* to a drop-in that was already filled.
OverrideFilledIn ==
    /\ pc = "done"
    /\ \E u \in 1..Len(rendered.units) :
           /\ Len(rendered.units[u].dropins) = 2
           /\ rendered.units[u].dropins[1].contents = FilledText
           /\ IsFooOverride(rendered.units[u], 2)
           /\ conf.units[u].dropins[2].contents = OverrideText

\* 02:00:00:xx:xx:xx, each x a lowercase hexadecimal digit.
IsSynthesizedMac(m) ==
    /\ Len(m) = 17
    /\ SubSeq(m, 1, 8) = MacPrefix
    /\ \A k \in {9, 12, 15} : m[k] = ":"
    /\ \A k \in {10, 11, 13, 14, 16, 17} : InList(m[k], HexDigits)

\* C7: without ADGUARD_MAC in the environment the build proceeds with a
\* synthesized adguard_mac; with it, adguard_mac is the value supplied.
AbsentMacIsSynthesized ==
    pc # "main" =>
        /\ (DOMAIN environ = EnvNames \ {ADGUARD_MAC}) =>
               /\ pc # "failed"
               /\ adguard_mac \in DOMAIN jinja_vars
               /\ IsSynthesizedMac(jinja_vars[adguard_mac])
        /\ (EnvNames \subseteq DOMAIN environ) =>
               jinja_vars[adguard_mac] = environ[ADGUARD_MAC]

\* What C8 expects of a source that is no data URI: the text after the first
\* comma, the whole string when there is no comma.
AfterFirstComma(s) ==
    IF \E i \in 1..Len(s) : s[i] = ","
    THEN SubSeq(s, 1 + (CHOOSE i \in 1..Len(s) :
                            s[i] = "," /\ \A j \in 1..(i - 1) : s[j] # ","), Len(s))
    ELSE s

IsDataUri(s) == OccursAt(s, << "d", "a", "t", "a", ":" >>, 1)

\* C8 as stated: every source that is no data URI, "base64" in its text or
\* not, decodes without failure to the text after its first comma, or to
\* itself when it has no comma.
NonDataUriTolerated ==
    (op = "decoded" /\ ~IsDataUri(source)) =>
        (result.ok /\ result.text = AfterFirstComma(source))

\* C8 as amended: every source that does not hold "base64" decodes without
\* failure to the text after its first comma, or to itself when it has no
\* comma.
SourceWithoutBase64Tolerated ==
    (op = "decoded" /\ ~Contains(source, Base64Word)) =>
        (result.ok /\ result.text = AfterFirstComma(source))

\* C8 witness: a source without "base64" and with two commas was decoded.
TwoCommaSourceDecoded ==
    /\ op = "decoded"
    /\ ~Contains(source, Base64Word)
    /\ Contains(result.text, Comma)

\* The user path without one leading "files" segment.
RemoveFilesSegment(p) ==
    IF OccursAt(p, FILES, 1) /\ (Len(p) = Len(FILES) \/ p[Len(FILES) + 1] = "/")
    THEN SubSeq(p, Len(FILES) + 1, Len(p))
    ELSE p

\* C9: the "files" command with arguments hands on each path without one
\* leading "files" segment, else unchanged, and prints exactly the File
\* Entries whose path is one of these, in document order.
FilesCommandFiltersByPath ==
    (ipc = "files_done" /\ argv # <<>>) =>
        LET wanted == [k \in 1..Len(argv) |-> RemoveFilesSegment(argv[k])]
            chosen(f) == InList(f.path, wanted)
            expected == SelectSeq(config.files, chosen)
        IN  /\ normalized = wanted
            /\ Len(printed) = Len(expected)
            /\ \A k \in 1..Len(expected) : printed[k].path = expected[k].path

\* _add_files has completed: every entry it embedded has a source that is
\* not empty and is no template.
EmbeddedAreSettled ==
    pc \in {"add_systemd_overrides", "add_files_again", "rerun_done"} =>
        \A i \in 1..Len(conf.files) :
            conf.files[i] # rendered.files[i] =>
                /\ conf.files[i].source # <<>>
                /\ ~is_jinja(conf.files[i].source)

\* C10: once _add_files has completed, every entry it embedded has a source
\* that is not empty and is no template, and a second run of _add_files
\* changes no entry, reads no asset and raises nothing.
SecondAddFilesChangesNothing ==
    /\ []EmbeddedAreSettled
    /\ [][pc = "add_files_again" => (conf' = conf /\ reads' = reads /\ pc' # "failed")]_vars

\* C10 witness: a second run has ended on a document with an embedded entry.
SecondRunEnded ==
    /\ pc = "rerun_done"
    /\ \E i \in 1..Len(conf.files) : conf.files[i] # rendered.files[i]

====
